---- MODULE Spec2Model ----
(***************************************************************************)
(* Model of interface/db/issues.py: the DBIssue entity, its lifecycle      *)
(* transitions (set_closed, set_open, set_merged), and its persistence     *)
(* (save, load, __update) over the gitea_forge_issues table.               *)
(*                                                                         *)
(* A handle is one in-memory DBIssue object, owned by one request.  The    *)
(* table is shared by all requests.  Every SQL statement is one atomic     *)
(* step; the statements of one save() are separate steps, so that the      *)
(* save() calls of concurrent requests interleave.                         *)
(* The actor-name codec (actor_name, split_actor_name) is checked under    *)
(* CodecSpec, over names that are sequences of characters.                 *)
(***************************************************************************)
EXTENDS Integers, Sequences, FiniteSets, TLC

\* ------------------------------------------------------------------ bounds

\* Timestamps a caller may supply are 1..MaxTime.
MaxTime == 2

\* The requests' DBIssue objects.
Handles == {"h1", "h2"}
Times == 1..MaxTime
\* The requests are the events of one forge entity, number "7" of
\* repository r1; the table may also hold number "7" of repository r2.
ScopeIds == {"7"}
Repos == {"r1"}
\* The database IDs a request asks for: of the row of that entity, which
\* follows the other repository's row, and one that no row has.
DbIds == {2, 3}

\* Actor names: a string is a sequence of characters.  The components of
\* an identity have at most MaxLen characters, an inbound name at most
\* MaxName.
MaxLen == 2
MaxName == 5

\* ------------------------------------------------------------- constants

OPEN == "open"
MERGED == "merged"
CLOSED == "closed"

\* The retry loop of save() gives up once count > MaxRetries.
MaxRetries == 5

\* Python's None / SQL's NULL, and a present value.
None == {}
Some(x) == {x}
Val(o) == CHOOSE x \in o : TRUE

\* ----------------------------------------------------------------- state

VARIABLES
    rows,        \* gitea_forge_issues: rows[i] is the row whose ID is i
    activities,  \* the activity log written by DBActivity.save()
    handles,     \* handles[h]: the fields of DBIssue object h, and where
                 \* its request stands: pc, the loop's count, and ret, the
                 \* object's last call and how it ended ("new" before any
                 \* call, the transition's name, "saved" or "existing"
                 \* for save(), or the exception the call raised)
    forge_is_pr, \* whether the forge entity is a pull request: issues and
                 \* pull requests share a repository's numbering, and an
                 \* entity never changes its kind
    codec,       \* the actor name a request encodes or receives, and the
                 \* outcome of split_actor_name on it
    inserted     \* history: inserted[i] is the is_merged that the INSERT
                 \* of row i wrote

vars == <<rows, activities, handles, forge_is_pr, codec, inserted>>

\* sqlite3 stores a Python bool as 0 or 1 and None as NULL.
ToSql(b) == IF b THEN 1 ELSE 0
ToSqlOpt(o) == IF o = None THEN None ELSE Some(ToSql(Val(o)))
\* Python's bool() of a stored integer.
bool(n) == n # 0

\* The html_url the forge gives issue s of repository r.
HtmlUrl(r, s) == <<r, "issues", s>>

\* A slot that holds no object.
NoHandle ==
    [live |-> FALSE, title |-> "title", description |-> "description",
     html_url |-> HtmlUrl("r1", "7"), created |-> 1, updated |-> 1,
     repo_scope_id |-> "7", repository |-> "r1", user |-> "u1", id |-> None,
     is_closed |-> FALSE, is_merged |-> None, is_native |-> TRUE,
     private_key |-> None, pc |-> "idle", count |-> 0, ret |-> "new"]

\* Faulty variant of __set_sqlite_to_bools: bool() of is_merged without
\* the test for None.
__set_sqlite_to_bools_NoNone(self) ==
    [self EXCEPT
        !.is_merged = IF self.is_merged = None THEN Some(FALSE)
                      ELSE Some(bool(Val(self.is_merged))),
        !.is_native = bool(self.is_native),
        !.is_closed = bool(self.is_closed)]

\* DBIssue.__set_sqlite_to_bools
__set_sqlite_to_bools(self) ==
    [self EXCEPT
        !.is_merged = IF self.is_merged = None THEN None
                      ELSE Some(bool(Val(self.is_merged))),
        !.is_native = bool(self.is_native),
        !.is_closed = bool(self.is_closed)]

\* DBIssue.is_pr
is_pr(self) == self.is_merged # None

\* Faulty variant of state: asks is_closed before is_merged.
state_ClosedFirst(self) ==
    IF self.is_closed THEN CLOSED
    ELSE IF self.is_merged # None /\ Val(self.is_merged) THEN MERGED
    ELSE OPEN

\* DBIssue.state
state(self) ==
    IF self.is_merged = None
    THEN (IF self.is_closed THEN CLOSED ELSE OPEN)
    ELSE IF Val(self.is_merged)
         THEN MERGED
         ELSE (IF self.is_closed THEN CLOSED ELSE OPEN)

\* Faulty variant of __update: the UPDATE has no WHERE clause.
__update_NoWhere(self, rs) ==
    [i \in DOMAIN rs |->
        [rs[i] EXCEPT
            !.title = self.title,
            !.description = self.description,
            !.updated = self.updated,
            !.is_closed = ToSql(self.is_closed),
            !.is_merged = ToSqlOpt(self.is_merged)]]

\* Faulty variant of __update: the UPDATE leaves out is_closed.
__update_NoClosed(self, rs) ==
    [i \in DOMAIN rs |->
        IF Some(i) = self.id
        THEN [rs[i] EXCEPT
                !.title = self.title,
                !.description = self.description,
                !.updated = self.updated,
                !.is_merged = ToSqlOpt(self.is_merged)]
        ELSE rs[i]]

\* DBIssue.__update: the table after UPDATE ... WHERE id = self.id
__update(self, rs) ==
    [i \in DOMAIN rs |->
        IF Some(i) = self.id
        THEN [rs[i] EXCEPT
                !.title = self.title,
                !.description = self.description,
                !.updated = self.updated,
                !.is_closed = ToSql(self.is_closed),
                !.is_merged = ToSqlOpt(self.is_merged)]
        ELSE rs[i]]

\* The SELECT of load: the IDs of the rows of (repository, repo_scope_id).
RowsOf(rs, repository, repo_scope_id) ==
    {i \in DOMAIN rs : /\ rs[i].repo_scope_id = repo_scope_id
                       /\ rs[i].repository = repository}

\* DBIssue.load: the object built from row i (fetchone), None without a row.
load(rs, repository, repo_scope_id) ==
    LET found == RowsOf(rs, repository, repo_scope_id) IN
    IF found = {} THEN None
    ELSE LET i == CHOOSE j \in found : \A k \in found : j <= k
             data == rs[i]
         IN Some(__set_sqlite_to_bools(
                [live |-> TRUE, id |-> Some(i), title |-> data.title,
                 description |-> data.description, html_url |-> data.html_url,
                 created |-> data.created, updated |-> data.updated,
                 is_closed |-> data.is_closed, is_merged |-> data.is_merged,
                 is_native |-> data.is_native, repo_scope_id |-> repo_scope_id,
                 user |-> data.user_id, repository |-> repository,
                 private_key |-> Some(data.private_key),
                 pc |-> "idle", count |-> 0, ret |-> "new"]))

\* DBIssue.load_with_id: the object built from the row whose ID is db_id,
\* None without such a row.
load_with_id(rs, db_id) ==
    IF db_id \notin DOMAIN rs THEN None
    ELSE LET data == rs[db_id] IN
         Some(__set_sqlite_to_bools(
            [live |-> TRUE, id |-> Some(db_id), title |-> data.title,
             description |-> data.description, html_url |-> data.html_url,
             created |-> data.created, updated |-> data.updated,
             is_closed |-> data.is_closed, is_merged |-> data.is_merged,
             is_native |-> data.is_native,
             repo_scope_id |-> data.repo_scope_id,
             user |-> data.user_id, repository |-> data.repository,
             private_key |-> Some(data.private_key),
             pc |-> "idle", count |-> 0, ret |-> "load_with_id"]))

\* DBIssue.load_with_html_url: the object built from the row of html_url
\* (fetchone), None without such a row.
load_with_html_url(rs, html_url) ==
    LET found == {i \in DOMAIN rs : rs[i].html_url = html_url} IN
    IF found = {} THEN None
    ELSE LET i == CHOOSE j \in found : \A k \in found : j <= k
             data == rs[i]
         IN Some(__set_sqlite_to_bools(
                [live |-> TRUE, html_url |-> html_url, title |-> data.title,
                 description |-> data.description, id |-> Some(i),
                 created |-> data.created, updated |-> data.updated,
                 is_closed |-> data.is_closed, is_merged |-> data.is_merged,
                 is_native |-> data.is_native,
                 repo_scope_id |-> data.repo_scope_id,
                 user |-> data.user_id, repository |-> data.repository,
                 private_key |-> Some(data.private_key),
                 pc |-> "idle", count |-> 0, ret |-> "load_with_html_url"]))

\* The row INSERT writes for self.
NewRow(self) ==
    [title |-> self.title, description |-> self.description,
     html_url |-> self.html_url, created |-> self.created,
     updated |-> self.updated, is_closed |-> ToSql(self.is_closed),
     is_merged |-> ToSqlOpt(self.is_merged),
     is_native |-> ToSql(self.is_native),
     repo_scope_id |-> self.repo_scope_id, user_id |-> self.user,
     repository |-> self.repository, private_key |-> Val(self.private_key)]

\* Faulty variant of UniqueViolation: only private_key is unique.
UniqueViolation_KeyOnly(rs, r) ==
    \E i \in DOMAIN rs : rs[i].private_key = r.private_key

\* The table's uniqueness constraints: (repository, repo_scope_id), html_url
\* and private_key.  INSERT raises IntegrityError when r breaks one.
UniqueViolation(rs, r) ==
    \E i \in DOMAIN rs :
        \/ /\ rs[i].repository = r.repository
           /\ rs[i].repo_scope_id = r.repo_scope_id
        \/ rs[i].html_url = r.html_url
        \/ rs[i].private_key = r.private_key

\* RSAKeyPair(): the keys a draw may give when the INSERT that follows it
\* meets the table rs.  The generated key is new to the table (the least
\* key no row holds stands for every such key), or it collides with the
\* key of a stored row.
RSAKeyPair(rs) ==
    LET stored == {rs[i].private_key : i \in DOMAIN rs} IN
    stored \cup {CHOOSE k \in 1..(Cardinality(stored) + 1) :
                    /\ k \notin stored
                    /\ \A j \in 1..(k - 1) : j \in stored}

\* ------------------------------------------------------------ actor names

\* The characters of a name: a letter and the two delimiters.
Chars == {"a", "!", "@"}

\* The strings over cs of at most n characters.
Strings(cs, n) == UNION {[1..k -> cs] : k \in 0..n}

\* The forge part a repository's actor name starts with.
Forges == {<<"g">>}

\* The characters of s.
CharsOf(s) == {s[i] : i \in 1..Len(s)}

\* str.split(c): the segments of s between the occurrences of c.
RECURSIVE split(_, _)
split(s, c) ==
    IF s = <<>> THEN << <<>> >>
    ELSE LET rest == split(Tail(s), c) IN
         IF Head(s) = c THEN << <<>> >> \o rest
         ELSE << <<Head(s)>> \o Head(rest) >> \o Tail(rest)

\* DBRepo.actor_name(): the forge, the owner and the repository's name,
\* joined by "!".
DBRepo_actor_name(forge, owner, name) ==
    forge \o <<"!">> \o owner \o <<"!">> \o name

\* DBIssue.actor_name: f"{self.repository.actor_name()}!issue!{...}"
actor_name(repository_actor_name, repo_scope_id) ==
    repository_actor_name \o <<"!", "i", "s", "s", "u", "e", "!">>
        \o repo_scope_id

\* Faulty variant of split_actor_name: issue_id is read at index 3.
split_actor_name_Index3(name) ==
    IF "!" \notin CharsOf(name)
    THEN [ret |-> "ValueError", out |-> <<>>]
    ELSE LET name_parts == split(name, "!") IN
         IF \E i \in {1, 2, 3} : i >= Len(name_parts)
         THEN [ret |-> "IndexError", out |-> <<>>]
         ELSE [ret |-> "return",
               out |-> <<name_parts[1 + 1], name_parts[2 + 1],
                         name_parts[3 + 1]>>]

\* DBIssue.split_actor_name: the tuple it returns or the exception it
\* raises.  Python's name_parts[i] is name_parts[i + 1] here, and raises
\* IndexError when i >= len(name_parts).
split_actor_name(name) ==
    IF "!" \notin CharsOf(name)
    THEN [ret |-> "ValueError", out |-> <<>>]
    ELSE LET name_parts == split(name, "!") IN
         IF \E i \in {1, 2, 4} : i >= Len(name_parts)
         THEN [ret |-> "IndexError", out |-> <<>>]
         ELSE [ret |-> "return",
               out |-> <<name_parts[1 + 1], name_parts[2 + 1],
                         name_parts[4 + 1]>>]

\* No name has been encoded or received.
NoName ==
    [pc |-> "idle", args |-> None, name |-> <<>>, ret |-> "none",
     out |-> <<>>]

\* ----------------------------------------------------------------- Init

\* A row saved earlier for number "7" of repository r2, an open PR.
OtherRow ==
    [title |-> "title", description |-> "description",
     html_url |-> HtmlUrl("r2", "7"), created |-> 1, updated |-> 1,
     is_closed |-> 0, is_merged |-> Some(0), is_native |-> 1,
     repo_scope_id |-> "7", user_id |-> "u1", repository |-> "r2",
     private_key |-> 1]

\* The table holds the other repository's row, the log its CREATE
\* activity; no request has built an object yet.
Init ==
    /\ rows = <<OtherRow>>
    /\ activities = <<[user_id |-> "u1", activity |-> "CREATE",
                       created |-> 1, issue_id |-> 1]>>
    /\ handles = [h \in Handles |-> NoHandle]
    /\ forge_is_pr \in BOOLEAN
    /\ codec = NoName
    /\ inserted = <<OtherRow.is_merged>>

\* -------------------------------------------------------------- actions

Idle(h) == handles[h].pc = "idle"
Live(h) == handles[h].live

\* A request builds a DBIssue in the free slot h from what the forge
\* reports about number s of repository r.
Construct(h, r, s, t, closed, merged) ==
    /\ ~Live(h)
    /\ is_pr([is_merged |-> merged]) = forge_is_pr
    /\ handles' = [handles EXCEPT ![h] =
            [NoHandle EXCEPT
                !.live = TRUE, !.html_url = HtmlUrl(r, s),
                !.updated = t, !.repo_scope_id = s, !.repository = r,
                !.is_closed = closed, !.is_merged = merged]]
    /\ UNCHANGED <<rows, activities, forge_is_pr, codec, inserted>>

\* A request loads the DBIssue of number s of repository r into the free
\* slot h with DBIssue.load; the slot stays free when load returns None.
Load(h, r, s) ==
    /\ ~Live(h)
    /\ LET issue == load(rows, r, s) IN
       handles' = [handles EXCEPT ![h] =
            IF issue = None THEN NoHandle ELSE Val(issue)]
    /\ UNCHANGED <<rows, activities, forge_is_pr, codec, inserted>>

\* A request loads a DBIssue into the free slot h with
\* DBIssue.load_with_id.
LoadWithId(h, db_id) ==
    /\ ~Live(h)
    /\ LET issue == load_with_id(rows, db_id) IN
       handles' = [handles EXCEPT ![h] =
            IF issue = None THEN NoHandle ELSE Val(issue)]
    /\ UNCHANGED <<rows, activities, forge_is_pr, codec, inserted>>

\* A request loads the DBIssue of number s of repository r into the free
\* slot h with DBIssue.load_with_html_url.
LoadWithHtmlUrl(h, r, s) ==
    /\ ~Live(h)
    /\ LET issue == load_with_html_url(rows, HtmlUrl(r, s)) IN
       handles' = [handles EXCEPT ![h] =
            IF issue = None THEN NoHandle ELSE Val(issue)]
    /\ UNCHANGED <<rows, activities, forge_is_pr, codec, inserted>>

\* The request that holds object h ends between two calls, and the object
\* is gone.
Drop(h) ==
    /\ Live(h) /\ Idle(h)
    /\ handles' = [handles EXCEPT ![h] = NoHandle]
    /\ UNCHANGED <<rows, activities, forge_is_pr, codec, inserted>>

\* Faulty variant of Closed: closes and keeps the old timestamp.
Closed_KeepTime(self, updated) ==
    [self EXCEPT !.is_closed = TRUE]

\* DBIssue.set_closed, in memory
Closed(self, updated) ==
    [self EXCEPT !.is_closed = TRUE, !.updated = updated]

\* DBIssue.set_closed
set_closed(h, updated) ==
    /\ Live(h) /\ Idle(h)
    /\ LET self == Closed(handles[h], updated) IN
       /\ handles' = [handles EXCEPT ![h] = [self EXCEPT !.ret = "set_closed"]]
       /\ rows' = __update(self, rows)
    /\ UNCHANGED <<activities, forge_is_pr, codec, inserted>>

\* Faulty variant of Merged: merges without closing.
Merged_NoClose(self, updated) ==
    [self EXCEPT !.is_merged = Some(TRUE), !.updated = updated]

\* DBIssue.set_merged, in memory, for a PR
Merged(self, updated) ==
    Closed([self EXCEPT !.is_merged = Some(TRUE)], updated)

\* Faulty variant of set_merged: merges first and checks is_pr() afterwards.
set_merged_LateCheck(h, updated) ==
    /\ Live(h) /\ Idle(h)
    /\ LET self == Merged(handles[h], updated) IN
       IF is_pr(handles[h])
       THEN /\ handles' = [handles EXCEPT ![h] =
                                [self EXCEPT !.ret = "set_merged"]]
            /\ rows' = __update(self, rows)
       ELSE /\ handles' = [handles EXCEPT ![h] =
                                [self EXCEPT !.ret = "TypeError"]]
            /\ rows' = rows
    /\ UNCHANGED <<activities, forge_is_pr, codec, inserted>>

\* DBIssue.set_merged
set_merged(h, updated) ==
    /\ Live(h) /\ Idle(h)
    /\ IF is_pr(handles[h])
       THEN LET self == Merged(handles[h], updated) IN
            /\ handles' = [handles EXCEPT ![h] =
                                [self EXCEPT !.ret = "set_merged"]]
            /\ rows' = __update(self, rows)
       ELSE /\ handles' = [handles EXCEPT ![h].ret = "TypeError"]
            /\ rows' = rows
    /\ UNCHANGED <<activities, forge_is_pr, codec, inserted>>

\* Faulty variant of Opened: resets is_merged without asking is_pr().
Opened_NoPrCheck(self, updated) ==
    [self EXCEPT !.is_closed = FALSE, !.updated = updated,
                 !.is_merged = Some(FALSE)]

\* Faulty variant of Opened: reopens and leaves is_merged as it is.
Opened_KeepMerged(self, updated) ==
    [self EXCEPT !.is_closed = FALSE, !.updated = updated]

\* DBIssue.set_open, in memory
Opened(self, updated) ==
    LET s == [self EXCEPT !.is_closed = FALSE, !.updated = updated] IN
    IF is_pr(s) THEN [s EXCEPT !.is_merged = Some(FALSE)] ELSE s

\* DBIssue.set_open
set_open(h, updated) ==
    /\ Live(h) /\ Idle(h)
    /\ LET self == Opened(handles[h], updated) IN
       /\ handles' = [handles EXCEPT ![h] = [self EXCEPT !.ret = "set_open"]]
       /\ rows' = __update(self, rows)
    /\ UNCHANGED <<activities, forge_is_pr, codec, inserted>>

\* Faulty variant of Adopt: takes the keypair and leaves the id.
Adopt_NoId(self, issue) ==
    [self EXCEPT !.private_key = issue.private_key, !.user = issue.user,
                 !.repository = issue.repository]

\* Faulty variant of Adopt: takes the id and leaves the keypair.
Adopt_NoKey(self, issue) ==
    [self EXCEPT !.user = issue.user, !.repository = issue.repository,
                 !.id = issue.id]

\* What save() copies from the record it found.
Adopt(self, issue) ==
    [self EXCEPT !.private_key = issue.private_key, !.user = issue.user,
                 !.repository = issue.repository, !.id = issue.id]

\* DBIssue.save: the existence check.  With a record, its identity is
\* adopted and save() returns; without, the insert loop starts.
save_load(h) ==
    /\ Live(h) /\ Idle(h)
    /\ LET self == handles[h]
           issue == load(rows, self.repository, self.repo_scope_id)
       IN handles' = [handles EXCEPT ![h] =
            IF issue # None
            THEN [Adopt(self, Val(issue)) EXCEPT !.ret = "existing"]
            ELSE [self EXCEPT !.pc = "insert", !.count = 0]]
    /\ UNCHANGED <<rows, activities, forge_is_pr, codec, inserted>>

\* DBIssue.save: one pass of the loop up to the INSERT's commit, with the
\* key RSAKeyPair() drew.  An IntegrityError is counted and retried, and
\* raised once count > MaxRetries.
save_insert(h) ==
    /\ handles[h].pc = "insert"
    /\ \E key \in RSAKeyPair(rows) :
       LET self == [handles[h] EXCEPT !.private_key = Some(key)] IN
       IF UniqueViolation(rows, NewRow(self))
       THEN /\ rows' = rows
            /\ inserted' = inserted
            /\ handles' = [handles EXCEPT ![h] =
                 IF self.count + 1 > MaxRetries
                 THEN [self EXCEPT !.count = 0, !.pc = "idle",
                                   !.ret = "IntegrityError"]
                 ELSE [self EXCEPT !.count = self.count + 1]]
       ELSE /\ rows' = Append(rows, NewRow(self))
            /\ inserted' = Append(inserted, NewRow(self).is_merged)
            /\ handles' = [handles EXCEPT ![h] =
                 [self EXCEPT !.pc = "activity", !.count = 0]]
    /\ UNCHANGED <<activities, forge_is_pr, codec>>

\* Faulty variant of save_activity: the DBActivity is built and not saved.
save_activity_NoLog(h) ==
    /\ handles[h].pc = "activity"
    /\ LET self == handles[h]
           data == {i \in DOMAIN rows : rows[i].html_url = self.html_url}
       IN IF data = {}
          THEN handles' = [handles EXCEPT ![h] =
                    [self EXCEPT !.pc = "idle", !.ret = "ValueError"]]
          ELSE LET id == CHOOSE j \in data : \A k \in data : j <= k IN
               handles' = [handles EXCEPT ![h] =
                    [self EXCEPT !.pc = "update", !.id = Some(id)]]
    /\ UNCHANGED <<rows, activities, forge_is_pr, codec, inserted>>

\* DBIssue.save: SELECT ID ... WHERE html_url = self.html_url, then
\* DBActivity(...).save() and the loop's break.  Without a row the
\* ValueError leaves save().
save_activity(h) ==
    /\ handles[h].pc = "activity"
    /\ LET self == handles[h]
           data == {i \in DOMAIN rows : rows[i].html_url = self.html_url}
       IN IF data = {}
          THEN /\ handles' = [handles EXCEPT ![h] =
                    [self EXCEPT !.pc = "idle", !.ret = "ValueError"]]
               /\ activities' = activities
          ELSE LET id == CHOOSE j \in data : \A k \in data : j <= k IN
               /\ handles' = [handles EXCEPT ![h] =
                    [self EXCEPT !.pc = "update", !.id = Some(id)]]
               /\ activities' = Append(activities,
                    [user_id |-> self.user, activity |-> "CREATE",
                     created |-> self.created, issue_id |-> id])
    /\ UNCHANGED <<rows, forge_is_pr, codec, inserted>>

\* DBIssue.save: the closing self.__update()
save_update(h) ==
    /\ handles[h].pc = "update"
    /\ rows' = __update(handles[h], rows)
    /\ handles' = [handles EXCEPT ![h].pc = "idle", ![h].ret = "saved"]
    /\ UNCHANGED <<activities, forge_is_pr, codec, inserted>>

Next ==
    \/ \E h \in Handles, r \in Repos, s \in ScopeIds, t \in Times,
          closed \in BOOLEAN, merged \in {None, Some(FALSE), Some(TRUE)} :
            Construct(h, r, s, t, closed, merged)
    \/ \E h \in Handles, r \in Repos, s \in ScopeIds : Load(h, r, s)
    \/ \E h \in Handles, db_id \in DbIds : LoadWithId(h, db_id)
    \/ \E h \in Handles, r \in Repos, s \in ScopeIds :
            LoadWithHtmlUrl(h, r, s)
    \/ \E h \in Handles : Drop(h)
    \/ \E h \in Handles, t \in Times : set_closed(h, t)
    \/ \E h \in Handles, t \in Times : set_merged(h, t)
    \/ \E h \in Handles, t \in Times : set_open(h, t)
    \/ \E h \in Handles : save_load(h)
    \/ \E h \in Handles : save_insert(h)
    \/ \E h \in Handles : save_activity(h)
    \/ \E h \in Handles : save_update(h)

Spec == Init /\ [][Next]_vars

\* A request encodes the actor name of issue repo_scope_id of the
\* repository name of owner.
ActorName(forge, owner, name, repo_scope_id) ==
    /\ codec.pc = "idle"
    /\ codec' = [NoName EXCEPT
            !.pc = "named",
            !.args = Some(<<owner, name, repo_scope_id>>),
            !.name = actor_name(DBRepo_actor_name(forge, owner, name),
                                repo_scope_id)]
    /\ UNCHANGED <<rows, activities, handles, forge_is_pr, inserted>>

\* A request receives an actor name from a peer.
Receive(name) ==
    /\ codec.pc = "idle"
    /\ codec' = [NoName EXCEPT !.pc = "named", !.name = name]
    /\ UNCHANGED <<rows, activities, handles, forge_is_pr, inserted>>

\* DBIssue.split_actor_name on the request's name.
SplitActorName ==
    /\ codec.pc = "named"
    /\ LET r == split_actor_name(codec.name) IN
       codec' = [codec EXCEPT !.pc = "split", !.ret = r.ret, !.out = r.out]
    /\ UNCHANGED <<rows, activities, handles, forge_is_pr, inserted>>

CodecInit == Init /\ forge_is_pr = FALSE

CodecNext ==
    \/ \E forge \in Forges, owner \in Strings(Chars, MaxLen),
          name \in Strings(Chars, MaxLen),
          repo_scope_id \in Strings(Chars, MaxLen) :
            ActorName(forge, owner, name, repo_scope_id)
    \/ \E name \in Strings(Chars, MaxName) : Receive(name)
    \/ SplitActorName

CodecSpec == CodecInit /\ [][CodecNext]_vars

\* ---------------------------------------------------------------- claims

\* The call of a transition on object h.
Transition(h) ==
    /\ handles'[h].ret \in {"set_closed", "set_open", "set_merged", "TypeError"}
    /\ \E t \in Times : set_closed(h, t) \/ set_open(h, t) \/ set_merged(h, t)

\* A step of save() on object h.
SaveStep(h) ==
    /\ \/ handles[h].pc # "idle"
       \/ handles'[h].pc # "idle"
       \/ handles'[h].ret = "existing"
    /\ \/ save_load(h)
       \/ save_insert(h)
       \/ save_activity(h)
       \/ save_update(h)

\* The row object h persists to, when it holds an id.
HasRow(self) == self.id # None /\ Val(self.id) \in DOMAIN rows
RowOf(self) == rows[Val(self.id)]

\* C1: merge irreversibility.  Once is_merged is true it stays true: no
\* set_closed, set_open or set_merged call takes an object's is_merged
\* from true to another value, and no step takes a row's is_merged from 1
\* to another value.
C1_MergeIrreversible ==
    [][/\ \A h \in Handles :
            (handles[h].is_merged = Some(TRUE) /\ Transition(h))
                => handles'[h].is_merged = Some(TRUE)
       /\ \A i \in DOMAIN rows :
            rows[i].is_merged = Some(1)
                => (i \in DOMAIN rows' /\ rows'[i].is_merged = Some(1))]_vars

C3_MarkMerged ==
    [][\A h \in Handles, t \in Times :
        (is_pr(handles[h]) /\ Live(h) /\ Idle(h) /\ set_merged(h, t))
            => /\ handles'[h].is_merged = Some(TRUE)
               /\ handles'[h].is_closed = TRUE
               /\ state(handles'[h]) = MERGED
               /\ handles'[h].ret = "set_merged"
               /\ HasRow(handles[h]) =>
                    LET row == rows'[Val(handles[h].id)] IN
                    /\ row.is_merged = Some(1)
                    /\ row.is_closed = 1
                    /\ row.updated = t]_vars

\* C3 witness: set_merged has returned on an object that holds the last
\* timestamp, and the row inserted unmerged by the other object, which has
\* made no call since, is merged, closed and updated.
C3_Witness ==
    \E h, g \in Handles :
        /\ handles[h].ret = "set_merged" /\ handles[h].updated = MaxTime
        /\ handles[g].ret = "saved" /\ handles[g].is_merged = Some(FALSE)
        /\ ~handles[g].is_closed /\ handles[g].updated = 1
        /\ handles[g].id = handles[h].id /\ HasRow(handles[h])
        /\ RowOf(handles[h]).is_merged = Some(1)
        /\ RowOf(handles[h]).is_closed = 1
        /\ RowOf(handles[h]).updated = MaxTime

\* C4: set_merged on an object that is no PR raises TypeError and changes
\* nothing else: the object's fields, the table and the log stay as they
\* were.
C4_MarkMergedNotPr ==
    [][\A h \in Handles, t \in Times :
        (~is_pr(handles[h]) /\ Live(h) /\ Idle(h) /\ set_merged(h, t))
            => /\ handles'[h] = [handles[h] EXCEPT !.ret = "TypeError"]
               /\ rows' = rows
               /\ activities' = activities]_vars

\* C4 witness: set_merged has raised on a saved, closed Issue.
C4_Witness ==
    \E h \in Handles :
        /\ handles[h].ret = "TypeError" /\ handles[h].is_merged = None
        /\ handles[h].is_closed /\ HasRow(handles[h])
        /\ RowOf(handles[h]).is_merged = None
        /\ RowOf(handles[h]).updated = handles[h].updated

\* C5: a save() that finds a row for its (repository, repo_scope_id)
\* inserts nothing and logs nothing, and ends holding that row's id and
\* keypair; the key has one row; all objects of a key that hold an id hold
\* the same id and the keypair stored with it, which never changes.
C5_IdempotentCreate ==
    [][/\ \A h \in Handles :
            LET self == handles[h]
                found == RowsOf(rows, self.repository, self.repo_scope_id)
            IN (found # {} /\ Live(h) /\ Idle(h) /\ save_load(h))
                => /\ rows' = rows /\ activities' = activities
                   /\ Cardinality(found) = 1
                   /\ handles'[h].ret = "existing"
                   /\ handles'[h].pc = "idle"
                   /\ handles'[h].id \subseteq found
                   /\ handles'[h].id # None
       /\ \A i \in DOMAIN rows :
            i \in DOMAIN rows' /\ rows'[i].private_key = rows[i].private_key
       /\ \A h \in Handles :
            LET self == handles'[h] IN
            (self.live /\ self.id # None)
                => /\ Val(self.id) \in DOMAIN rows'
                   /\ self.id \subseteq
                        RowsOf(rows', self.repository, self.repo_scope_id)
                   /\ self.private_key =
                        Some(rows'[Val(self.id)].private_key)]_vars

\* C5 witness: the first object's save() inserted, the second's found the
\* row, and both hold the id and the keypair of the key's one row.
C5_Witness ==
    \E h, g \in Handles :
        /\ handles[h].ret = "saved" /\ handles[g].ret = "existing"
        /\ handles[h].id # None /\ handles[g].id = handles[h].id
        /\ handles[g].private_key = handles[h].private_key
        /\ handles[g].private_key = Some(RowOf(handles[g]).private_key)
        /\ Cardinality(RowsOf(rows, handles[g].repository,
                              handles[g].repo_scope_id)) = 1
        /\ Len(activities) = Len(rows)

\* C6: in every reachable state of the interleaved save() calls the table
\* holds at most one row per (repository, repo_scope_id).
C6_AtMostOneRow ==
    \A i, j \in DOMAIN rows :
        (/\ rows[i].repository = rows[j].repository
         /\ rows[i].repo_scope_id = rows[j].repo_scope_id) => i = j

\* C6 witness: both objects passed the existence check, one inserted the
\* key's row, and the other's INSERT with a key new to the table was
\* refused.
C6_Witness ==
    \E h, g \in Handles :
        /\ handles[h].pc = "update" /\ HasRow(handles[h])
        /\ handles[g].pc = "insert" /\ handles[g].count >= 1
        /\ handles[g].repository = handles[h].repository
        /\ handles[g].repo_scope_id = handles[h].repo_scope_id
        /\ handles[g].private_key # None
        /\ \A i \in DOMAIN rows :
                rows[i].private_key # Val(handles[g].private_key)

\* C7: race reconciliation.  A save() that passed the existence check and
\* finds, in its loop, the row another save() inserted for its key ends
\* normally, holding that row's id and keypair.
C7_RaceLoserAdopts ==
    [][\A h \in Handles :
        LET self == handles[h]
            found == RowsOf(rows, self.repository, self.repo_scope_id)
        IN (/\ self.pc = "insert" /\ found # {}
            /\ handles'[h].pc = "idle" /\ SaveStep(h))
            => /\ handles'[h].ret \in {"saved", "existing"}
               /\ handles'[h].id # None
               /\ handles'[h].id \subseteq found
               /\ handles'[h].private_key =
                    Some(rows[Val(handles'[h].id)].private_key)]_vars

\* C8: state() is the specified function of (is_merged, is_closed) on all
\* six combinations, and in every reachable state an object's state() is
\* OPEN, CLOSED or MERGED, and never MERGED for an object that is no PR.
C8_StateFunction ==
    /\ \A m \in {None, Some(FALSE), Some(TRUE)}, c \in BOOLEAN :
            state([is_merged |-> m, is_closed |-> c]) =
                IF m = Some(TRUE) THEN "merged"
                ELSE IF c THEN "closed" ELSE "open"
    /\ \A h \in Handles :
            Live(h) =>
                /\ state(handles[h]) \in {"open", "closed", "merged"}
                /\ ~is_pr(handles[h]) => state(handles[h]) # "merged"
                /\ state(handles[h]) = "merged"
                        <=> handles[h].is_merged = Some(TRUE)
                /\ state(handles[h]) = "closed"
                        <=> (handles[h].is_merged # Some(TRUE)
                             /\ handles[h].is_closed)

\* C8 witness: one object of the PR reports MERGED and is closed, the
\* other, reopened, reports OPEN.
C8_Witness ==
    \E h, g \in Handles :
        /\ Live(h) /\ state(handles[h]) = MERGED /\ handles[h].is_closed
        /\ handles[h].ret = "set_merged"
        /\ Live(g) /\ state(handles[g]) = OPEN /\ is_pr(handles[g])
        /\ handles[g].ret = "set_open"

\* C9: set_closed(t) works from every state: it ends with is_closed true,
\* is_merged as before and updated = t, so OPEN and CLOSED go to CLOSED
\* and MERGED stays MERGED; the object's row holds the same flags and
\* updated = t, also when the object was closed before.
C9_Close ==
    [][\A h \in Handles, t \in Times :
        (Live(h) /\ Idle(h) /\ set_closed(h, t))
            => /\ handles'[h].is_closed = TRUE
               /\ handles'[h].is_merged = handles[h].is_merged
               /\ handles'[h].updated = t
               /\ handles'[h].ret = "set_closed"
               /\ state(handles'[h]) =
                    IF state(handles[h]) = MERGED THEN MERGED ELSE CLOSED
               /\ HasRow(handles[h]) =>
                    LET row == rows'[Val(handles[h].id)] IN
                    /\ row.is_closed = 1
                    /\ row.updated = t
                    /\ is_pr(row) = is_pr(handles[h])
                    /\ is_pr(row) =>
                        bool(Val(row.is_merged)) = Val(handles[h].is_merged)
        ]_vars

\* C9 witness: a second set_closed, with the last timestamp, on a merged
\* and closed PR: the row holds both flags and the new timestamp.
C9_Witness ==
    \E h, g \in Handles :
        /\ handles[g].ret = "set_merged" /\ handles[g].updated = 1
        /\ handles[h].id = handles[g].id /\ HasRow(handles[h])
        /\ handles[h].ret = "set_closed" /\ handles[h].updated = MaxTime
        /\ handles[h].is_merged = Some(TRUE) /\ handles[h].is_closed
        /\ RowOf(handles[h]).is_closed = 1
        /\ RowOf(handles[h]).is_merged = Some(1)
        /\ RowOf(handles[h]).updated = MaxTime

\* C10: set_open(t) ends with is_closed false and, for a PR, is_merged
\* false, so state() is OPEN after every set_open; for an Issue state()
\* is CLOSED after set_closed and unchanged by a failing set_merged, so
\* it is CLOSED exactly when the last of its set_closed and set_open
\* calls was set_closed.
C10_Reopen ==
    [][\A h \in Handles, t \in Times :
        /\ (Live(h) /\ Idle(h) /\ set_open(h, t))
            => /\ handles'[h].is_closed = FALSE
               /\ handles'[h].is_merged =
                    IF is_pr(handles[h]) THEN Some(FALSE) ELSE None
               /\ handles'[h].updated = t
               /\ state(handles'[h]) = OPEN
        /\ (~is_pr(handles[h]) /\ Live(h) /\ Idle(h) /\ set_closed(h, t))
            => state(handles'[h]) = CLOSED
        /\ (~is_pr(handles[h]) /\ Live(h) /\ Idle(h) /\ set_merged(h, t))
            => state(handles'[h]) = state(handles[h])]_vars

\* C10 witness: set_open with the last timestamp on a PR that the other
\* object merged: the reopened object is OPEN, and the row holds
\* is_merged = 0 and is_closed = 0.
C10_Witness ==
    \E h, g \in Handles :
        /\ handles[g].ret = "set_merged" /\ handles[g].id = handles[h].id
        /\ handles[h].ret = "set_open" /\ handles[h].updated = MaxTime
        /\ state(handles[h]) = OPEN /\ HasRow(handles[h])
        /\ RowOf(handles[h]).is_merged = Some(0)
        /\ RowOf(handles[h]).is_closed = 0

\* C15: identity codec round trip.  For every (owner, repo, scope_id)
\* whose components hold neither "!" nor "@", split_actor_name of the
\* actor name encoded for them returns exactly (owner, repo, scope_id).
C15_RoundTrip ==
    (/\ codec.pc = "split" /\ codec.args # None
     /\ \A i \in 1..3 : CharsOf(Val(codec.args)[i]) \cap {"!", "@"} = {})
        => /\ codec.ret = "return"
           /\ codec.out = Val(codec.args)

\* C15 witness: the name of issue "a" of repository "aa" of owner "a" has
\* been encoded and split into these three.
C15_Witness ==
    /\ codec.pc = "split" /\ codec.ret = "return"
    /\ codec.args = Some(<< <<"a">>, <<"a", "a">>, <<"a">> >>)
    /\ codec.name = <<"g", "!", "a", "!", "a", "a", "!", "i", "s", "s",
                      "u", "e", "!", "a">>
    /\ codec.out = << <<"a">>, <<"a", "a">>, <<"a">> >>

\* C16: split_actor_name fails with the same error, the ValueError of
\* "Invalid actor name", for every malformed name: a name without "!", and
\* a name with "!" that splits into fewer than 5 segments.
C16_SameError ==
    (/\ codec.pc = "split"
     /\ \/ "!" \notin CharsOf(codec.name)
        \/ Len(split(codec.name, "!")) < 5)
        => codec.ret = "ValueError"

\* C11: bounded insert retry.  A save() whose INSERT keeps raising
\* IntegrityError makes at most 5 insert attempts in total: no attempt is
\* made after 5 have failed.
C11_BoundedRetry ==
    [][\A h \in Handles :
        (handles[h].pc = "insert" /\ handles[h].count + 1 > 5)
            => ~save_insert(h)]_vars

\* C12: no silent data loss.  Every set_closed, set_open or set_merged
\* call that returns normally, on any object (one never saved, whose id is
\* None, included), leaves a row of the object whose title, description,
\* updated, is_closed and is_merged are the object's.
C12_NoSilentLoss ==
    [][\A h \in Handles :
        (Transition(h) /\ handles'[h].ret # "TypeError")
            => LET self == handles'[h] IN
               /\ self.id # None /\ Val(self.id) \in DOMAIN rows'
               /\ LET row == rows'[Val(self.id)] IN
                  /\ row.title = self.title
                  /\ row.description = self.description
                  /\ row.updated = self.updated
                  /\ row.is_closed = ToSql(self.is_closed)
                  /\ row.is_merged = ToSqlOpt(self.is_merged)]_vars

\* C13: id is assigned once.  A constructed object has no id until a
\* save() step gives it the id of its key's row, a step of save() that
\* returns normally leaves the object with an id, no step of save,
\* set_closed, set_open or set_merged changes an id an object holds, and
\* no row ever changes its (repository, repo_scope_id) or html_url.
C13_IdAssignedOnce ==
    [][/\ \A h \in Handles :
            (handles'[h].id # handles[h].id /\ Live(h) /\ handles'[h].live)
                => /\ handles[h].id = None
                   /\ SaveStep(h)
                   /\ handles'[h].id \subseteq
                        RowsOf(rows', handles'[h].repository,
                               handles'[h].repo_scope_id)
       /\ \A h \in Handles :
            (handles'[h].ret \in {"saved", "existing"} /\ SaveStep(h))
                => handles'[h].id # None
       /\ \A h \in Handles :
            (~Live(h) /\ handles'[h].live /\ handles'[h].id # None)
                => handles'[h].id \subseteq
                        RowsOf(rows, handles'[h].repository,
                               handles'[h].repo_scope_id)
       /\ \A i \in DOMAIN rows :
            /\ i \in DOMAIN rows'
            /\ rows'[i].repository = rows[i].repository
            /\ rows'[i].repo_scope_id = rows[i].repo_scope_id
            /\ rows'[i].html_url = rows[i].html_url]_vars

\* C13 witness: one object inserted the row and then merged it, the other
\* adopted the row and then reopened it, and both still hold the row's id.
C13_Witness ==
    \E h, g \in Handles :
        /\ h # g /\ handles[h].private_key = handles[g].private_key
        /\ handles[h].ret = "set_merged" /\ handles[g].ret = "set_open"
        /\ handles[h].id = Some(2) /\ handles[g].id = Some(2)
        /\ rows[2].repository = handles[h].repository
        /\ rows[2].repo_scope_id = handles[h].repo_scope_id

\* C14: updated is non-decreasing across transitions.  After every
\* set_closed, set_open or set_merged call, whatever timestamp the caller
\* gives, updated of the object and of its row is at least what it was.
C14_UpdatedMonotonic ==
    [][\A h \in Handles :
        Transition(h)
            => /\ handles'[h].updated >= handles[h].updated
               /\ \A i \in DOMAIN rows :
                    rows'[i].updated >= rows[i].updated]_vars

\* C17: create atomicity with the activity log.  In every state in which
\* no save() is in progress, also after a save() that raised, each row
\* has exactly one CREATE activity, attributed to the row's user; an
\* absorbed create adds none.
C17_CreateActivity ==
    (\A h \in Handles : Idle(h))
        => \A i \in DOMAIN rows :
            LET logged == {k \in DOMAIN activities :
                            /\ activities[k].issue_id = i
                            /\ activities[k].activity = "CREATE"}
            IN /\ Cardinality(logged) = 1
               /\ \A k \in logged : activities[k].user_id = rows[i].user_id

\* C17 witness: one save() inserted the row and logged it, the racing
\* save() raised IntegrityError, a later save() was absorbed, and no
\* save() is in progress.
C17_Witness ==
    \E h, g \in Handles :
        /\ handles[h].ret = "IntegrityError" /\ handles[g].ret = "existing"
        /\ Idle(h) /\ Idle(g) /\ HasRow(handles[g])
        /\ Len(rows) = 2 /\ Len(activities) = 2
        /\ activities[2].issue_id = Val(handles[g].id)

\* C18: frame of __update.  Every set_closed, set_open and set_merged
\* call, and the closing update of save(), changes only title,
\* description, updated, is_closed and is_merged of the row whose id is
\* the object's; that row's other columns and every other row stay as
\* they were, and no row is added.
C18_UpdateFrame ==
    [][\A h \in Handles :
        (Transition(h) \/ (handles[h].pc = "update" /\ save_update(h)))
            => /\ DOMAIN rows' = DOMAIN rows
               /\ \A i \in DOMAIN rows :
                    IF Some(i) = handles[h].id
                    THEN rows'[i] = [rows[i] EXCEPT
                            !.title = rows'[i].title,
                            !.description = rows'[i].description,
                            !.updated = rows'[i].updated,
                            !.is_closed = rows'[i].is_closed,
                            !.is_merged = rows'[i].is_merged]
                    ELSE rows'[i] = rows[i]]_vars

\* C18 witness: set_closed with the last timestamp has changed the
\* object's row, and the other repository's row is as it was.
C18_Witness ==
    \E h \in Handles :
        /\ handles[h].ret = "set_closed" /\ handles[h].id = Some(2)
        /\ Len(rows) = 2 /\ rows[1] = OtherRow
        /\ rows[2].updated = MaxTime /\ rows[2].is_closed = 1
        /\ rows[2].created = 1 /\ rows[2].is_native = 1
        /\ rows[2].html_url = handles[h].html_url
        /\ Some(rows[2].private_key) = handles[h].private_key

\* C19: merged implies closed.  A row that was inserted with is_merged
\* not true shows, in every state a reader can observe, is_merged = 1
\* only together with is_closed = 1: set_merged writes both flags in one
\* UPDATE.
C19_MergedImpliesClosed ==
    \A i \in DOMAIN rows :
        (inserted[i] # Some(1) /\ rows[i].is_merged = Some(1))
            => rows[i].is_closed = 1

\* C19 witness: the row was inserted closed and unmerged by one object,
\* which has made no call since, and set_merged through the other has
\* left it merged and closed.
C19_Witness ==
    \E h, g \in Handles :
        /\ handles[g].ret = "saved" /\ handles[g].is_merged = Some(FALSE)
        /\ handles[g].is_closed /\ handles[g].id = handles[h].id
        /\ handles[h].ret = "set_merged" /\ HasRow(handles[h])
        /\ inserted[Val(handles[h].id)] = Some(0)
        /\ RowOf(handles[h]).is_merged = Some(1)
        /\ RowOf(handles[h]).is_closed = 1

\* C20: no lost update between objects.  When set_merged through one
\* object has persisted is_merged = 1, a set_closed or set_merged through
\* another object of the same row leaves the row's is_merged = 1 and
\* is_closed = 1.
C20_NoLostUpdate ==
    [][\A h, g \in Handles, t \in Times :
        (/\ h # g /\ handles[g].ret = "set_merged" /\ Idle(g)
         /\ handles[g].id = handles[h].id /\ HasRow(handles[g])
         /\ RowOf(handles[g]).is_merged = Some(1)
         /\ handles'[h].ret \in {"set_closed", "set_merged"}
         /\ (set_closed(h, t) \/ set_merged(h, t)))
            => /\ rows'[Val(handles[g].id)].is_merged = Some(1)
               /\ rows'[Val(handles[g].id)].is_closed = 1]_vars

\* C21: an absorbed create agrees with the stored record.  A save() that
\* finds a row of its key leaves the table as it is and returns with the
\* object's is_closed, is_merged, title, description and updated equal to
\* the row's.
C21_AbsorbedAgrees ==
    [][\A h \in Handles :
        (handles'[h].ret = "existing" /\ Live(h) /\ Idle(h) /\ save_load(h))
            => /\ rows' = rows
               /\ handles'[h].id # None
               /\ LET self == handles'[h]
                      row == rows'[Val(self.id)]
                  IN /\ ToSql(self.is_closed) = row.is_closed
                     /\ ToSqlOpt(self.is_merged) = row.is_merged
                     /\ self.title = row.title
                     /\ self.description = row.description
                     /\ self.updated = row.updated]_vars

\* C22: the persistence round trip keeps kind and state.  After every
\* write of an object's row (the closing update of save(), set_closed,
\* set_open, set_merged) each of load, load_with_id and load_with_html_url
\* returns an object whose is_merged is None exactly when the row holds
\* NULL, whose is_merged, is_closed and is_native are the booleans that
\* were written, and whose is_pr() and state() are the writer's; and every
\* object a loader has just built holds the booleans of the stored 0/1.
C22_LoadRoundTrip ==
    [][/\ \A h \in Handles :
            (/\ handles'[h].id # None
             /\ \/ handles[h].pc = "update" /\ save_update(h)
                \/ Transition(h) /\ handles'[h].ret # "TypeError")
                => LET self == handles'[h]
                       loaded == {load(rows', self.repository,
                                       self.repo_scope_id),
                                  load_with_id(rows', Val(self.id)),
                                  load_with_html_url(rows', self.html_url)}
                   IN \A o \in loaded :
                        /\ o # None
                        /\ Val(o).id = self.id
                        /\ (Val(o).is_merged = None)
                                <=> (rows'[Val(self.id)].is_merged = None)
                        /\ Val(o).is_merged = self.is_merged
                        /\ Val(o).is_closed = self.is_closed
                        /\ Val(o).is_native = self.is_native
                        /\ is_pr(Val(o)) = is_pr(self)
                        /\ state(Val(o)) = state(self)
       /\ \A h \in Handles :
            (~Live(h) /\ handles'[h].live /\ handles'[h].id # None)
                => LET issue == handles'[h]
                       row == rows[Val(issue.id)]
                   IN /\ (issue.is_merged = None) <=> (row.is_merged = None)
                      /\ issue.is_merged # None =>
                            Val(issue.is_merged) = (Val(row.is_merged) = 1)
                      /\ issue.is_closed = (row.is_closed = 1)
                      /\ issue.is_native = (row.is_native = 1)]_vars

\* C22 witness: the row of a merged PR has been loaded by its ID into one
\* object and by its html_url into the other, and both report MERGED.
C22_Witness ==
    \E h, g \in Handles :
        /\ handles[h].ret = "load_with_id"
        /\ handles[g].ret = "load_with_html_url"
        /\ handles[h].id = handles[g].id /\ HasRow(handles[h])
        /\ RowOf(handles[h]).is_merged = Some(1)
        /\ RowOf(handles[h]).is_closed = 1
        /\ handles[h].is_merged = Some(TRUE) /\ handles[h].is_closed = TRUE
        /\ state(handles[h]) = MERGED /\ state(handles[g]) = MERGED
        /\ is_pr(handles[g]) /\ handles[g].is_native = TRUE

====
